---- MODULE Spec2Model ----
(***************************************************************************)
(* Model of Agente.py: the sandboxed tool agent (path guard, approval      *)
(* gates, tool registry, direct-command router, inference client and the   *)
(* per-turn action protocol).                                              *)
(*                                                                         *)
(* Python strings are modelled as sequences of one-character strings, so   *)
(* that strip, lstrip, startswith, suffix and newline translation are      *)
(* computed character by character as the interpreter computes them.       *)
(* Paths follow pathlib's POSIX flavour: "/" is the only separator, a      *)
(* backslash is an ordinary name character, and the modelled file system   *)
(* holds no symbolic links.                                                *)
(***************************************************************************)
EXTENDS Integers, Sequences, FiniteSets, TLC

VARIABLES
    relPath,          \* SpecPath: the argument handed to safe_path
    resolved,         \* SpecPath: outcome of safe_path (raised / returned path)
    spDone,           \* SpecPath: safe_path has been called
    approvalRequired, \* APPROVAL_REQUIRED, fixed for the life of the process
    fs,               \* the file system: absolute path -> node
    call,             \* the tool call that completed last
    prev,             \* summary of the tool call before it
    nCalls,           \* number of tool calls made so far
    oll,              \* call_ollama: position in the retry loop and its locals
    turn,             \* run_agent_turn: position in the turn and its locals
    turnNo            \* number of user turns started by main

pathVars == <<relPath, resolved, spDone>>
toolVars == <<approvalRequired, fs, call, prev, nCalls>>
ollVars == <<oll>>
turnVars == <<turn, turnNo>>

vars == <<relPath, resolved, spDone, approvalRequired, fs, call, prev, nCalls,
          oll, turn, turnNo>>

----------------------------------------------------------------------------
(* Bounds *)

MaxPathLen == 5
MaxCalls == 2
MaxTurns == 2

----------------------------------------------------------------------------
(* Strings as character sequences *)

Whitespace == {" ", "\t", "\n", "\r"}

RECURSIVE LStrip(_, _)
LStrip(s, cs) ==
    IF s # <<>> /\ Head(s) \in cs THEN LStrip(Tail(s), cs) ELSE s

RECURSIVE RStrip(_, _)
RStrip(s, cs) ==
    IF s # <<>> /\ s[Len(s)] \in cs
    THEN RStrip(SubSeq(s, 1, Len(s) - 1), cs)
    ELSE s

\* str.strip()
Strip(s) == RStrip(LStrip(s, Whitespace), Whitespace)

\* str.startswith(prefix)
StartsWith(s, prefix) ==
    /\ Len(s) >= Len(prefix)
    /\ SubSeq(s, 1, Len(prefix)) = prefix

\* split a path string on "/" into its (possibly empty) components
RECURSIVE Split(_)
Split(s) ==
    IF s = <<>> THEN << <<>> >>
    ELSE LET r == Split(Tail(s))
         IN  IF Head(s) = "/"
             THEN << <<>> >> \o r
             ELSE << <<Head(s)>> \o Head(r) >> \o Tail(r)

\* all sequences over S of length at most n
SeqsUpTo(S, n) == UNION {[1..k -> S] : k \in 0..n}

----------------------------------------------------------------------------
(* Paths: an absolute path is the sequence of its components *)

\* WORKSPACE = Path(...).resolve(): here /h/w
WORKSPACE == << <<"h">>, <<"w">> >>

\* Path.resolve() of base joined with the components of a relative path:
\* empty and "." components vanish, ".." drops the last component (the
\* root is its own parent).
RECURSIVE Normalize(_, _)
Normalize(base, parts) ==
    IF parts = <<>> THEN base
    ELSE LET c == Head(parts)
         IN  IF c = <<>> \/ c = <<".">>
             THEN Normalize(base, Tail(parts))
             ELSE IF c = <<".", ".">>
             THEN Normalize(IF base = <<>> THEN <<>>
                            ELSE SubSeq(base, 1, Len(base) - 1), Tail(parts))
             ELSE Normalize(Append(base, c), Tail(parts))

\* str(path)
RECURSIVE PathStr(_)
PathStr(p) ==
    IF p = <<>> THEN <<"/">>
    ELSE IF Len(p) = 1 THEN <<"/">> \o p[1]
    ELSE PathStr(SubSeq(p, 1, Len(p) - 1)) \o <<"/">> \o p[Len(p)]

\* (WORKSPACE / rel_path).resolve() after the leading separators are cut
JoinResolve(rel) == Normalize(WORKSPACE, Split(rel))

\* safe_path: the returned path, or raised = TRUE for the ValueError
safe_path(rel_path) ==
    LET r == LStrip(Strip(rel_path), {"\\", "/"})
        p == JoinResolve(r)
    IN  IF ~StartsWith(PathStr(p), PathStr(WORKSPACE))
        THEN [raised |-> TRUE, path |-> <<>>]
        ELSE [raised |-> FALSE, path |-> p]

\* value of `resolved` before safe_path has been called
NoResult == [raised |-> FALSE, path |-> <<>>]

\* p is the directory d or lies below it
IsUnder(p, d) ==
    /\ Len(p) >= Len(d)
    /\ SubSeq(p, 1, Len(d)) = d

----------------------------------------------------------------------------
(* The file system: a function from the absolute paths that exist to nodes *)

DirNode == [kind |-> "dir", data |-> <<>>]
FileNode(d) == [kind |-> "file", data |-> d]

Exists(f, p) == p \in DOMAIN f
IsFile(f, p) == p \in DOMAIN f /\ f[p].kind = "file"
IsDir(f, p) == p \in DOMAIN f /\ f[p].kind = "dir"

Parent(p) == IF p = <<>> THEN <<>> ELSE SubSeq(p, 1, Len(p) - 1)
Name(p) == IF p = <<>> THEN <<>> ELSE p[Len(p)]

Put(f, p, node) == [q \in DOMAIN f \cup {p} |-> IF q = p THEN node ELSE f[q]]
Remove(f, p) == [q \in DOMAIN f \ {p} |-> f[q]]

\* Path.mkdir(parents=True, exist_ok=True): raises when the path or one of
\* its ancestors is a regular file, otherwise every missing directory on
\* the way is created.
MkdirParents(f, p) ==
    IF \E k \in 1..Len(p) : IsFile(f, SubSeq(p, 1, k))
    THEN [raised |-> TRUE, fs |-> f]
    ELSE [raised |-> FALSE,
          fs |-> [q \in DOMAIN f \cup {SubSeq(p, 1, k) : k \in 0..Len(p)} |->
                    IF q \in DOMAIN f THEN f[q] ELSE DirNode]]

\* Path.unlink(): only a regular file can be removed
Unlink(f, p) ==
    IF IsFile(f, p)
    THEN [raised |-> FALSE, fs |-> Remove(f, p)]
    ELSE [raised |-> TRUE, fs |-> f]

\* a rename that copies: the source is left in place
RenameKeepsSource(f, src, dst) ==
    IF ~IsFile(f, src) \/ IsDir(f, dst) \/ ~IsDir(f, Parent(dst))
    THEN [raised |-> TRUE, fs |-> f]
    ELSE [raised |-> FALSE, fs |-> Put(f, dst, f[src])]

\* Path.rename(dst) of a regular file (os.rename): an existing regular
\* file at dst is replaced, a directory at dst or a missing parent raises,
\* renaming a file onto itself does nothing.
Rename(f, src, dst) ==
    IF ~IsFile(f, src) \/ IsDir(f, dst) \/ ~IsDir(f, Parent(dst))
    THEN [raised |-> TRUE, fs |-> f]
    ELSE IF src = dst THEN [raised |-> FALSE, fs |-> f]
    ELSE [raised |-> FALSE, fs |-> Put(Remove(f, src), dst, f[src])]

\* os.linesep
LineSep == <<"\n">>

\* text written through write_text (newline=None): every "\n" of the
\* string becomes os.linesep
RECURSIVE EncodeText(_)
EncodeText(s) ==
    IF s = <<>> THEN <<>>
    ELSE (IF Head(s) = "\n" THEN LineSep ELSE <<Head(s)>>)
         \o EncodeText(Tail(s))

\* text read through read_text (universal newlines): "\r\n" and a lone
\* "\r" both come back as "\n"
RECURSIVE DecodeText(_)
DecodeText(b) ==
    IF b = <<>> THEN <<>>
    ELSE IF Head(b) = "\r"
    THEN IF Len(b) >= 2 /\ b[2] = "\n"
         THEN <<"\n">> \o DecodeText(SubSeq(b, 3, Len(b)))
         ELSE <<"\n">> \o DecodeText(Tail(b))
    ELSE <<Head(b)>> \o DecodeText(Tail(b))

\* Path.write_text(content): open(path, "w") fails on a directory and on a
\* missing parent directory
WriteText(f, p, content) ==
    IF IsDir(f, p) \/ ~IsDir(f, Parent(p))
    THEN [raised |-> TRUE, fs |-> f]
    ELSE [raised |-> FALSE, fs |-> Put(f, p, FileNode(EncodeText(content)))]

\* Path.read_text(): fails on anything but a regular file
ReadText(f, p) ==
    IF ~IsFile(f, p)
    THEN [raised |-> TRUE, text |-> <<>>]
    ELSE [raised |-> FALSE, text |-> DecodeText(f[p].data)]

\* s[:n]
SliceTo(s, n) ==
    IF n >= 0
    THEN SubSeq(s, 1, IF n < Len(s) THEN n ELSE Len(s))
    ELSE SubSeq(s, 1, IF Len(s) + n > 0 THEN Len(s) + n ELSE 0)

----------------------------------------------------------------------------
(* Approval gates *)

UpperCase ==
    <<"A", "B", "C", "D", "E", "F", "G", "H", "I", "J", "K", "L", "M",
      "N", "O", "P", "Q", "R", "S", "T", "U", "V", "W", "X", "Y", "Z">>
LowerCase ==
    <<"a", "b", "c", "d", "e", "f", "g", "h", "i", "j", "k", "l", "m",
      "n", "o", "p", "q", "r", "s", "t", "u", "v", "w", "x", "y", "z">>

LowerChar(c) ==
    IF \E i \in DOMAIN UpperCase : UpperCase[i] = c
    THEN LowerCase[CHOOSE i \in DOMAIN UpperCase : UpperCase[i] = c]
    ELSE c

\* str.lower()
Lower(s) == [i \in 1..Len(s) |-> LowerChar(s[i])]

\* an approval that shows the prompt and takes any answer for a yes
ApproveAnyAnswer(ans) ==
    IF ~approvalRequired
    THEN [ok |-> TRUE, prompts |-> 0, read |-> <<>>]
    ELSE [ok |-> TRUE, prompts |-> 1, read |-> <<ans>>]

\* require_approval: ans is the line the operator types if a prompt is
\* shown; prompts counts the lines read from the operator
require_approval(ans) ==
    IF ~approvalRequired
    THEN [ok |-> TRUE, prompts |-> 0, read |-> <<>>]
    ELSE [ok |-> Lower(Strip(ans)) = <<"s">>, prompts |-> 1, read |-> <<ans>>]

\* a second gate that reads the typed line and accepts whatever it holds
DoubleConfirmAnyName(file_path, ans, typed) ==
    LET g1 == require_approval(ans)
    IN  IF ~g1.ok
        THEN [ok |-> FALSE, gate1 |-> FALSE, gate2 |-> FALSE,
              prompts |-> g1.prompts, read |-> g1.read]
        ELSE [ok |-> TRUE, gate1 |-> TRUE, gate2 |-> TRUE,
              prompts |-> g1.prompts + 1, read |-> Append(g1.read, typed)]

\* double_confirm_delete: the S/N approval, then the file name typed back
double_confirm_delete(file_path, ans, typed) ==
    LET g1 == require_approval(ans)
    IN  IF ~g1.ok
        THEN [ok |-> FALSE, gate1 |-> FALSE, gate2 |-> FALSE,
              prompts |-> g1.prompts, read |-> g1.read]
        ELSE [ok |-> Strip(typed) = Name(file_path),
              gate1 |-> TRUE, gate2 |-> Strip(typed) = Name(file_path),
              prompts |-> g1.prompts + 1, read |-> Append(g1.read, typed)]

----------------------------------------------------------------------------
(* Tools.  Each operator is one tool of TOOLS applied to the file system f: *)
(* raised = TRUE when the call ends with an exception instead of a result, *)
(* res is the returned dictionary, fs the file system the call leaves,     *)
(* read the operator's lines the call consumed, spawned the processes it   *)
(* started and scanned the files whose content it read.                    *)

Raises(f, rd) ==
    [raised |-> TRUE, res |-> [ok |-> FALSE, error |-> "exception"],
     fs |-> f, read |-> rd, gates |-> <<>>, spawned |-> <<>>, scanned |-> {}]
Fails(f, rd, msg) ==
    [raised |-> FALSE, res |-> [ok |-> FALSE, error |-> msg],
     fs |-> f, read |-> rd, gates |-> <<>>, spawned |-> <<>>, scanned |-> {}]
Returns(f, rd, r) ==
    [raised |-> FALSE, res |-> r, fs |-> f, read |-> rd, gates |-> <<>>,
     spawned |-> <<>>, scanned |-> {}]

\* the marker read_file appends to a truncated text: "\n... (recortado)"
TruncMarker ==
    <<"\n", ".", ".", ".", " ", "(", "r", "e", "c", "o", "r", "t", "a", "d", "o", ")">>

\* default of read_file's max_chars
DefaultMaxChars == 6000

\* a write_file that asks for approval before it looks at the target
WriteAsksFirst(f, path, content, overwrite, ans) ==
    LET sp == safe_path(path)
        file_path == sp.path
        ap == require_approval(ans)
    IN  IF sp.raised THEN Raises(f, <<>>)
        ELSE IF ~ap.ok THEN Fails(f, ap.read, "Accion cancelada por el usuario.")
        ELSE IF Exists(f, file_path) /\ ~overwrite
        THEN Fails(f, ap.read, "El archivo ya existe.")
        ELSE LET m == MkdirParents(f, Parent(file_path))
             IN  IF m.raised THEN Raises(m.fs, ap.read)
                 ELSE LET w == WriteText(m.fs, file_path, content)
                      IN  IF w.raised THEN Raises(w.fs, ap.read)
                          ELSE Returns(w.fs, ap.read,
                                 [ok |-> TRUE, path |-> file_path,
                                  exists |-> Exists(w.fs, file_path),
                                  size |-> Len(w.fs[file_path].data)])

tool_write_file(f, path, content, overwrite, ans) ==
    LET sp == safe_path(path)
        file_path == sp.path
    IN  IF sp.raised THEN Raises(f, <<>>)
        ELSE IF Exists(f, file_path) /\ ~overwrite
        THEN Fails(f, <<>>, "El archivo ya existe.")
        ELSE LET ap == require_approval(ans)
             IN  IF ~ap.ok THEN Fails(f, ap.read, "Accion cancelada por el usuario.")
                 ELSE LET m == MkdirParents(f, Parent(file_path))
                      IN  IF m.raised THEN Raises(m.fs, ap.read)
                          ELSE LET w == WriteText(m.fs, file_path, content)
                               IN  IF w.raised THEN Raises(w.fs, ap.read)
                                   ELSE Returns(w.fs, ap.read,
                                          [ok |-> TRUE, path |-> file_path,
                                           exists |-> Exists(w.fs, file_path),
                                           size |-> Len(w.fs[file_path].data)])

tool_read_file(f, path, max_chars) ==
    LET sp == safe_path(path)
        file_path == sp.path
    IN  IF sp.raised THEN Raises(f, <<>>)
        ELSE IF ~Exists(f, file_path) THEN Fails(f, <<>>, "Archivo no existe.")
        ELSE LET r == ReadText(f, file_path)
                 data == r.text
             IN  IF r.raised THEN Raises(f, <<>>)
                 ELSE [Returns(f, <<>>,
                         [ok |-> TRUE, path |-> file_path,
                          content |-> IF Len(data) > max_chars
                                      THEN SliceTo(data, max_chars) \o TruncMarker
                                      ELSE data])
                         EXCEPT !.scanned = {file_path}]

tool_delete_file(f, path, ans, typed, ioFails) ==
    LET sp == safe_path(path)
        file_path == sp.path
    IN  IF sp.raised THEN Raises(f, <<>>)
        ELSE IF ~Exists(f, file_path) \/ ~IsFile(f, file_path)
        THEN Fails(f, <<>>, "Archivo no existe.")
        ELSE LET dc == double_confirm_delete(file_path, ans, typed)
                 g == <<dc.gate1, dc.gate2>>
             IN  IF ~dc.ok
                 THEN [Fails(f, dc.read, "Borrado cancelado por el usuario.")
                         EXCEPT !.gates = g]
                 ELSE LET u == IF ioFails THEN [raised |-> TRUE, fs |-> f]
                                          ELSE Unlink(f, file_path)
                      IN  IF u.raised
                          THEN [Fails(u.fs, dc.read, "OSError") EXCEPT !.gates = g]
                          ELSE [Returns(u.fs, dc.read,
                                  [ok |-> TRUE, deleted |-> file_path])
                                  EXCEPT !.gates = g]

tool_rename_file(f, src, dst, overwrite, ans, ioFails) ==
    LET s == safe_path(src)
        d == safe_path(dst)
        src_path == s.path
        dst_path == d.path
    IN  IF s.raised \/ d.raised THEN Raises(f, <<>>)
        ELSE IF ~Exists(f, src_path) \/ ~IsFile(f, src_path)
        THEN Fails(f, <<>>, "Archivo origen no existe.")
        ELSE IF Exists(f, dst_path) /\ ~overwrite
        THEN Fails(f, <<>>, "Destino ya existe.")
        ELSE LET ap == require_approval(ans)
             IN  IF ~ap.ok THEN Fails(f, ap.read, "Accion cancelada por el usuario.")
                 ELSE LET m == MkdirParents(f, Parent(dst_path))
                      IN  IF m.raised THEN Fails(m.fs, ap.read, "OSError")
                          ELSE LET u == IF overwrite /\ Exists(m.fs, dst_path)
                                        THEN Unlink(m.fs, dst_path)
                                        ELSE [raised |-> FALSE, fs |-> m.fs]
                               IN  IF u.raised THEN Fails(u.fs, ap.read, "OSError")
                                   ELSE LET r == IF ioFails
                                                 THEN [raised |-> TRUE, fs |-> u.fs]
                                                 ELSE Rename(u.fs, src_path, dst_path)
                                        IN  IF r.raised
                                            THEN Fails(r.fs, ap.read, "OSError")
                                            ELSE Returns(r.fs, ap.read,
                                                   [ok |-> TRUE, from |-> src_path,
                                                    to |-> dst_path])


\* EXT_GROUPS, in the order the dictionary lists its groups
EXT_GROUPS ==
    <<[group |-> <<"i", "m", "a", "g", "e", "n", "e", "s">>,
       exts |-> {<<".", "p", "n", "g">>,
                 <<".", "j", "p", "g">>,
                 <<".", "j", "p", "e", "g">>,
                 <<".", "w", "e", "b", "p">>,
                 <<".", "g", "i", "f">>,
                 <<".", "b", "m", "p">>}],
      [group |-> <<"a", "u", "d", "i", "o">>,
       exts |-> {<<".", "m", "p", "3">>,
                 <<".", "w", "a", "v">>,
                 <<".", "a", "a", "c">>,
                 <<".", "m", "4", "a">>,
                 <<".", "o", "g", "g">>}],
      [group |-> <<"v", "i", "d", "e", "o">>,
       exts |-> {<<".", "m", "p", "4">>,
                 <<".", "m", "o", "v">>,
                 <<".", "m", "k", "v">>,
                 <<".", "a", "v", "i">>,
                 <<".", "w", "e", "b", "m">>}],
      [group |-> <<"d", "o", "c", "s">>,
       exts |-> {<<".", "t", "x", "t">>,
                 <<".", "m", "d">>,
                 <<".", "p", "d", "f">>,
                 <<".", "d", "o", "c", "x">>,
                 <<".", "x", "l", "s", "x">>,
                 <<".", "p", "p", "t", "x">>}],
      [group |-> <<"c", "o", "d", "e">>,
       exts |-> {<<".", "p", "y">>,
                 <<".", "j", "s">>,
                 <<".", "t", "s">>,
                 <<".", "h", "t", "m", "l">>,
                 <<".", "c", "s", "s">>,
                 <<".", "j", "s", "o", "n">>}]>>

\* list(EXT_GROUPS.keys()) + ["otros"]
OTROS == <<"o", "t", "r", "o", "s">>
CategoryFolders == [i \in 1..Len(EXT_GROUPS) |-> EXT_GROUPS[i].group] \o <<OTROS>>

\* PurePath.suffix: the name from its last dot on, unless that dot is the
\* first or the last character
Suffix(name) ==
    LET dots == {i \in 1..Len(name) : name[i] = "."}
        i == CHOOSE k \in dots : \A j \in dots : j <= k
    IN  IF dots # {} /\ 1 < i /\ i < Len(name)
        THEN SubSeq(name, i, Len(name))
        ELSE <<>>

\* the first group of EXT_GROUPS that lists ext, "otros" when none does
RECURSIVE DestFolder(_, _)
DestFolder(ext, i) ==
    IF i > Len(EXT_GROUPS) THEN OTROS
    ELSE IF ext \in EXT_GROUPS[i].exts THEN EXT_GROUPS[i].group
    ELSE DestFolder(ext, i + 1)

\* shutil.move(src, dst) of a regular file: into dst when dst is a
\* directory (an entry of that name there is an error), else os.rename
ShutilMove(f, src, dst) ==
    LET real_dst == IF IsDir(f, dst) THEN dst \o <<Name(src)>> ELSE dst
    IN  IF IsDir(f, dst) /\ Exists(f, real_dst)
        THEN [raised |-> TRUE, fs |-> f]
        ELSE Rename(f, src, real_dst)

\* shutil.copy2(src, dst) of a regular file: into dst when dst is a
\* directory; the destination file is created or overwritten
ShutilCopy2(f, src, dst) ==
    LET real_dst == IF IsDir(f, dst) THEN dst \o <<Name(src)>> ELSE dst
    IN  IF ~IsFile(f, src) \/ IsDir(f, real_dst) \/ ~IsDir(f, Parent(real_dst))
        THEN [raised |-> TRUE, fs |-> f]
        ELSE [raised |-> FALSE, fs |-> Put(f, real_dst, f[src])]

\* (base / folder).mkdir(parents=True, exist_ok=True) for the folders in
\* turn; the first failure ends the loop with the earlier ones created
RECURSIVE MkdirFolders(_, _, _)
MkdirFolders(f, base, folders) ==
    IF folders = <<>> THEN [raised |-> FALSE, fs |-> f]
    ELSE LET m == MkdirParents(f, base \o <<Head(folders)>>)
         IN  IF m.raised THEN m ELSE MkdirFolders(m.fs, base, Tail(folders))

\* the body of the loop over base.iterdir() for one entry p; st carries
\* the file system, the moved list (as a set) and the skipped counter
OrganizeEntry(st, base, mode, p) ==
    IF ~IsFile(st.fs, p) THEN st
    ELSE LET ext == Lower(Suffix(Name(p)))
             dest_folder == DestFolder(ext, 1)
             dest == base \o <<dest_folder, Name(p)>>
         IN  IF dest = p
             THEN [st EXCEPT !.skipped = @ + 1]
             ELSE LET r == IF mode = "move" THEN ShutilMove(st.fs, p, dest)
                                            ELSE ShutilCopy2(st.fs, p, dest)
                  IN  IF r.raised
                      THEN [st EXCEPT !.skipped = @ + 1]
                      ELSE [st EXCEPT !.fs = r.fs,
                                      !.moved = @ \cup {[from |-> Name(p),
                                                         to |-> <<dest_folder, Name(p)>>]}]

\* the loop over the entries listed by base.iterdir()
RECURSIVE OrganizeLoop(_, _, _, _)
OrganizeLoop(st, base, mode, entries) ==
    IF entries = {} THEN st
    ELSE LET p == CHOOSE e \in entries : TRUE
         IN  OrganizeLoop(OrganizeEntry(st, base, mode, p), base, mode,
                          entries \ {p})

tool_organize_folder(f, subdir, mode, ans) ==
    IF mode \notin {"move", "copy"}
    THEN Fails(f, <<>>, "mode debe ser 'move' o 'copy'.")
    ELSE LET sp == IF subdir # <<>> THEN safe_path(subdir)
                                     ELSE [raised |-> FALSE, path |-> WORKSPACE]
             base == sp.path
         IN  IF sp.raised THEN Raises(f, <<>>)
             ELSE IF ~Exists(f, base) THEN Fails(f, <<>>, "Directorio no existe.")
             ELSE LET ap == require_approval(ans)
                  IN  IF ~ap.ok
                      THEN Fails(f, ap.read, "Accion cancelada por el usuario.")
                      ELSE LET m == MkdirFolders(f, base, CategoryFolders)
                           IN  IF m.raised THEN Raises(m.fs, ap.read)
                               ELSE LET entries == {p \in DOMAIN m.fs :
                                                      p # <<>> /\ Parent(p) = base}
                                        st == OrganizeLoop(
                                                [fs |-> m.fs, moved |-> {}, skipped |-> 0],
                                                base, mode, entries)
                                    IN  Returns(st.fs, ap.read,
                                          [ok |-> TRUE,
                                           moved_count |-> Cardinality(st.moved),
                                           skipped |-> st.skipped,
                                           moved |-> st.moved])

----------------------------------------------------------------------------
(* open_app, search_text and create_project_folder *)

\* str(WORKSPACE) as an element of an argument vector
WorkspaceArg == "/h/w"

\* ALLOWED_APPS: the argument vector of each key
ALLOWED_APPS ==
    [k \in {"notepad", "calculator", "explorer_workspace", "cmd", "chrome"} |->
        CASE k = "notepad" -> [cmd |-> <<"notepad.exe">>]
          [] k = "calculator" -> [cmd |-> <<"calc.exe">>]
          [] k = "explorer_workspace" -> [cmd |-> <<"explorer.exe", WorkspaceArg>>]
          [] k = "cmd" -> [cmd |-> <<"cmd.exe">>]
          [] k = "chrome" -> [cmd |-> <<"cmd.exe", "/c", "start", "chrome">>]]

\* subprocess.Popen(args, shell=False): the process started
Popen(args, shell) == [args |-> args, shell |-> shell]

\* an open_app that hands the key itself to a shell
OpenAnyApp(f, app_key, ans, popenFails) ==
    LET ap == require_approval(ans)
    IN  IF ~ap.ok THEN Fails(f, ap.read, "Accion cancelada por el usuario.")
        ELSE [Returns(f, ap.read, [ok |-> TRUE, opened |-> app_key])
                EXCEPT !.spawned = <<Popen(<<app_key>>, TRUE)>>]

\* tool_open_app; popenFails: the executable cannot be started
tool_open_app(f, app_key, ans, popenFails) ==
    IF app_key \notin DOMAIN ALLOWED_APPS
    THEN Fails(f, <<>>, "App no permitida.")
    ELSE LET app == ALLOWED_APPS[app_key]
             ap == require_approval(ans)
         IN  IF ~ap.ok THEN Fails(f, ap.read, "Accion cancelada por el usuario.")
             ELSE IF popenFails THEN Fails(f, ap.read, "OSError")
             ELSE [Returns(f, ap.read, [ok |-> TRUE, opened |-> app_key])
                     EXCEPT !.spawned = <<Popen(app.cmd, FALSE)>>]

TEXT_EXTS ==
    {<<".", "t", "x", "t">>, <<".", "m", "d">>, <<".", "p", "y">>,
     <<".", "j", "s">>, <<".", "t", "s">>, <<".", "h", "t", "m", "l">>,
     <<".", "c", "s", "s">>, <<".", "j", "s", "o", "n">>,
     <<".", "c", "s", "v">>, <<".", "l", "o", "g">>}

\* q in s
Contains(q, s) ==
    \E i \in 0..(Len(s) - Len(q)) : SubSeq(s, i + 1, i + Len(q)) = q

\* str.splitlines() of a text whose line ends are "\n"
RECURSIVE SplitLines(_)
SplitLines(s) ==
    IF s = <<>> THEN <<>>
    ELSE LET nl == {i \in 1..Len(s) : s[i] = "\n"}
         IN  IF nl = {} THEN <<s>>
             ELSE LET i == CHOOSE k \in nl : \A j \in nl : k <= j
                  IN  <<SubSeq(s, 1, i - 1)>> \o SplitLines(SubSeq(s, i + 1, Len(s)))

\* default of search_text's max_hits
DefaultMaxHits == 50

\* the length search_text cuts a reported line to
HitTextLen == 300

\* the loop over enumerate(lines) from index idx on; st.done is set by the
\* return inside the loop
RECURSIVE ScanLines(_, _, _, _, _, _, _)
ScanLines(st, rel, lines, idx, q, case_sensitive, max_hits) ==
    IF st.done \/ idx >= Len(lines) THEN st
    ELSE LET line == lines[idx + 1]
             line_cmp == IF case_sensitive THEN line ELSE Lower(line)
         IN  IF Contains(q, line_cmp)
             THEN LET hits == Append(st.hits, [file |-> rel, line |-> idx + 1,
                                                 text |-> SliceTo(line, HitTextLen)])
                  IN  ScanLines([st EXCEPT !.hits = hits,
                                           !.done = Len(hits) >= max_hits],
                                rel, lines, idx + 1, q, case_sensitive, max_hits)
             ELSE ScanLines(st, rel, lines, idx + 1, q, case_sensitive, max_hits)

\* the loop over base.rglob("*"), which yields the entries in the order
\* the sequence `order` gives
RECURSIVE ScanFiles(_, _, _, _, _, _)
ScanFiles(st, f, order, q, case_sensitive, max_hits) ==
    IF st.done \/ st.raised \/ order = <<>> THEN st
    ELSE LET p == Head(order)
             rest == Tail(order)
         IN  IF ~IsFile(f, p) \/ Lower(Suffix(Name(p))) \notin TEXT_EXTS
             THEN ScanFiles(st, f, rest, q, case_sensitive, max_hits)
             ELSE LET text == ReadText(f, p).text
                      hay == IF case_sensitive THEN text ELSE Lower(text)
                      st1 == [st EXCEPT !.scanned = @ \cup {p}]
                  IN  IF ~Contains(q, hay)
                      THEN ScanFiles(st1, f, rest, q, case_sensitive, max_hits)
                      \* p.relative_to(WORKSPACE) raises at the first hit in
                      \* a file that is not below WORKSPACE
                      ELSE IF ~IsUnder(p, WORKSPACE)
                              /\ \E i \in 1..Len(SplitLines(text)) :
                                    Contains(q, IF case_sensitive
                                                THEN SplitLines(text)[i]
                                                ELSE Lower(SplitLines(text)[i]))
                      THEN [st1 EXCEPT !.raised = TRUE]
                      ELSE ScanFiles(
                             ScanLines(st1, SubSeq(p, Len(WORKSPACE) + 1, Len(p)),
                                       SplitLines(text), 0, q, case_sensitive,
                                       max_hits),
                             f, rest, q, case_sensitive, max_hits)

\* the entries base.rglob("*") yields: everything below base
Below(f, base) == {p \in DOMAIN f : p # base /\ IsUnder(p, base)}

\* tool_search_text; order: the sequence in which rglob yields the entries
tool_search_text(f, query, subdir, case_sensitive, max_hits, ans, order) ==
    LET sp == IF subdir # <<>> THEN safe_path(subdir)
                                ELSE [raised |-> FALSE, path |-> WORKSPACE]
        base == sp.path
    IN  IF sp.raised THEN Raises(f, <<>>)
        ELSE IF ~Exists(f, base) THEN Fails(f, <<>>, "Directorio no existe.")
        ELSE LET ap == require_approval(ans)
             IN  IF ~ap.ok THEN Fails(f, ap.read, "Accion cancelada por el usuario.")
                 ELSE LET q == IF case_sensitive THEN query ELSE Lower(query)
                          st == ScanFiles([hits |-> <<>>, done |-> FALSE,
                                           raised |-> FALSE, scanned |-> {}],
                                          f, order, q, case_sensitive, max_hits)
                      IN  IF st.raised
                          THEN [Raises(f, ap.read) EXCEPT !.scanned = st.scanned]
                          ELSE [Returns(f, ap.read,
                                  [ok |-> TRUE, query |-> query, hits |-> st.hits,
                                   truncated |-> st.done])
                                  EXCEPT !.scanned = st.scanned]

\* the characters the project name is cleared of: <>:"/\|?*
ForbiddenChars == {"<", ">", ":", "\"", "/", "\\", "|", "?", "*"}

\* "".join(c for c in project.strip() if c not in r'<>:"/\|?*').strip()
Sanitize(project) ==
    Strip(SelectSeq(Strip(project), LAMBDA c : c \notin ForbiddenChars))

PROYECTOS == <<"p", "r", "o", "y", "e", "c", "t", "o", "s">>

\* ["entrada", "salida", "notas", "assets"]
ProjectSubfolders ==
    <<<<"e", "n", "t", "r", "a", "d", "a">>, <<"s", "a", "l", "i", "d", "a">>,
      <<"n", "o", "t", "a", "s">>, <<"a", "s", "s", "e", "t", "s">>>>

\* Path.mkdir(exist_ok=True): an existing directory is left alone; a
\* regular file in its place or a missing parent raises
MkdirExistOk(f, p) ==
    IF IsDir(f, p) THEN [raised |-> FALSE, fs |-> f]
    ELSE IF Exists(f, p) \/ ~IsDir(f, Parent(p)) THEN [raised |-> TRUE, fs |-> f]
    ELSE [raised |-> FALSE, fs |-> Put(f, p, DirNode)]

RECURSIVE MkdirSubfolders(_, _, _)

\* a loop that stops after the first subfolder
MkdirFirstSubfolder(f, folder_path, subs) ==
    IF subs = <<>> THEN [raised |-> FALSE, fs |-> f]
    ELSE MkdirExistOk(f, folder_path \o <<Head(subs)>>)

\* the loop over the four subfolders; the first failure ends it
MkdirSubfolders(f, folder_path, subs) ==
    IF subs = <<>> THEN [raised |-> FALSE, fs |-> f]
    ELSE LET m == MkdirExistOk(f, folder_path \o <<Head(subs)>>)
         IN  IF m.raised THEN m ELSE MkdirSubfolders(m.fs, folder_path, Tail(subs))

\* the name of the project folder: the argument that names the project,
\* cleared, behind the date stamp when there is one
FolderNameFinal(project, include_date, project_name, folder_name, today) ==
    LET p1 == IF project = <<>> /\ project_name # <<>> THEN project_name ELSE project
        p2 == IF folder_name # <<>> /\ p1 = <<>> THEN folder_name ELSE p1
        project_clean == Sanitize(p2)
        stamp == IF include_date THEN today ELSE <<>>
    IN  IF project_clean = <<>> THEN <<>>
        ELSE IF stamp # <<>> THEN stamp \o <<"_">> \o project_clean
        ELSE project_clean

\* tool_create_project_folder; today: datetime.now() as %Y-%m-%d
tool_create_project_folder(f, project, include_date, project_name, folder_name, ans, today) ==
    LET folder_name_final ==
            FolderNameFinal(project, include_date, project_name, folder_name, today)
        folder_rel == PROYECTOS \o <<"/">> \o folder_name_final
        sp == safe_path(folder_rel)
        folder_path == sp.path
    IN  IF folder_name_final = <<>>
        THEN Fails(f, <<>>, "Nombre de proyecto invalido.")
        ELSE IF sp.raised THEN Raises(f, <<>>)
        ELSE LET ap == require_approval(ans)
             IN  IF ~ap.ok THEN Fails(f, ap.read, "Accion cancelada por el usuario.")
                 ELSE LET m == MkdirParents(f, folder_path)
                      IN  IF m.raised THEN Fails(m.fs, ap.read, "OSError")
                          ELSE LET s == MkdirSubfolders(m.fs, folder_path,
                                                        ProjectSubfolders)
                               IN  IF s.raised THEN Fails(s.fs, ap.read, "OSError")
                                   ELSE Returns(s.fs, ap.read,
                                          [ok |-> TRUE, folder |-> folder_path,
                                           relative |-> folder_rel])

----------------------------------------------------------------------------
(* call_ollama: the retry loop around the inference request *)

RETRIES == 2

\* a loop that goes round once more
LoopPassesOneMore == RETRIES + 2

\* range(RETRIES + 1): the number of passes through the loop
LoopPasses == RETRIES + 1

\* what one requests.post can come to: an exception of requests (no
\* connection, timeout), or a response with a status and a body that is
\* JSON or not, holding a "response" field or not
NetError == [exc |-> TRUE, status |-> 0, json |-> FALSE, field |-> FALSE, response |-> <<>>]
HttpError(code) ==
    [exc |-> FALSE, status |-> code, json |-> TRUE, field |-> FALSE, response |-> <<>>]
HttpGarbage ==
    [exc |-> FALSE, status |-> 200, json |-> FALSE, field |-> FALSE, response |-> <<>>]
HttpNoField ==
    [exc |-> FALSE, status |-> 200, json |-> TRUE, field |-> FALSE, response |-> <<>>]
HttpOk(text) ==
    [exc |-> FALSE, status |-> 200, json |-> TRUE, field |-> TRUE, response |-> text]

\* the attempt reaches `return out`
AttemptReturns(o) == ~o.exc /\ o.status = 200 /\ o.json

\* r.json().get("response", "")
ResponseText(o) == IF o.field THEN o.response ELSE <<>>

\* call_ollama before the first pass of its loop
OllamaEntered ==
    [pc |-> "loop", attempt |-> 0, sent |-> <<>>, last_err |-> "None", out |-> <<>>]

\* call_ollama not running
OllamaNotCalled ==
    [pc |-> "idle", attempt |-> 0, sent |-> <<>>, last_err |-> "None", out |-> <<>>]

\* one pass of the loop, given what the request comes to: the request is
\* sent; a good response is returned at once; any failure is remembered
\* and, after the sleep, the loop goes on or is exhausted and the
\* RuntimeError is raised
OllamaPass(st, o) ==
    LET st1 == [st EXCEPT !.sent = Append(@, o)]
    IN  IF AttemptReturns(o)
        THEN [st1 EXCEPT !.pc = "returned", !.out = ResponseText(o)]
        ELSE LET st2 == [st1 EXCEPT !.attempt = @ + 1,
                                    !.last_err = IF o.exc THEN "RequestException"
                                                 ELSE IF o.status # 200 THEN "HTTP"
                                                 ELSE "JSONDecodeError"]
             IN  IF st2.attempt >= LoopPasses
                 THEN [st2 EXCEPT !.pc = "raised"]
                 ELSE st2

\* a whole call, given what the successive requests come to (as many
\* outcomes as the call may need)
RECURSIVE OllamaRun(_, _)
OllamaRun(st, outcomes) ==
    IF st.pc # "loop" \/ outcomes = <<>> THEN st
    ELSE OllamaRun(OllamaPass(st, Head(outcomes)), Tail(outcomes))

call_ollama(outcomes) == OllamaRun(OllamaEntered, outcomes)

----------------------------------------------------------------------------
(* list_files and the registry *)

tool_list_files(f, subdir) ==
    LET sp == IF subdir # <<>> THEN safe_path(subdir)
                                ELSE [raised |-> FALSE, path |-> WORKSPACE]
        base == sp.path
        found == {p \in DOMAIN f : IsFile(f, p) /\ p # base /\ IsUnder(p, base)}
    IN  IF sp.raised THEN Raises(f, <<>>)
        ELSE IF ~Exists(f, base) THEN Fails(f, <<>>, "Directorio no existe.")
        \* p.relative_to(WORKSPACE) raises for a file that is not below it
        ELSE IF \E p \in found : ~IsUnder(p, WORKSPACE) THEN Raises(f, <<>>)
        ELSE Returns(f, <<>>,
               [ok |-> TRUE,
                files |-> {SubSeq(p, Len(WORKSPACE) + 1, Len(p)) : p \in found},
                count |-> Cardinality(found)])

\* the keys of TOOLS
TOOLS ==
    {"write_file", "read_file", "list_files", "open_app", "organize_folder",
     "delete_file", "rename_file", "search_text", "create_project_folder"}

\* the parameters of the tool functions: those without and with a default
ToolParams(tool_name) ==
    CASE tool_name = "write_file" ->
           [required |-> {"path", "content"}, optional |-> {"overwrite"}]
      [] tool_name = "read_file" ->
           [required |-> {"path"}, optional |-> {"max_chars"}]
      [] tool_name = "list_files" ->
           [required |-> {}, optional |-> {"subdir"}]
      [] tool_name = "organize_folder" ->
           [required |-> {}, optional |-> {"subdir", "mode"}]
      [] tool_name = "delete_file" ->
           [required |-> {"path"}, optional |-> {}]
      [] tool_name = "rename_file" ->
           [required |-> {"src", "dst"}, optional |-> {"overwrite"}]

\* a keyword argument, or the parameter's default
ArgOr(args, k, default) == IF k \in DOMAIN args THEN args[k] ELSE default

\* TOOLS[tool_name](**args): unpacking something that is no mapping and
\* binding a missing or an unexpected keyword argument raise TypeError
\* before the tool's body runs; env holds what the operator types and
\* whether the file system refuses the change
CallTool(f, tool_name, args, env) ==
    LET ps == ToolParams(tool_name)
        kw == args.v
    IN  IF args.t # "dict"
        THEN [typeError |-> TRUE, out |-> Raises(f, <<>>)]
        ELSE IF ~(ps.required \subseteq DOMAIN kw)
                \/ ~(DOMAIN kw \subseteq ps.required \cup ps.optional)
        THEN [typeError |-> TRUE, out |-> Raises(f, <<>>)]
        ELSE [typeError |-> FALSE,
              out |->
                CASE tool_name = "write_file" ->
                       tool_write_file(f, kw.path, kw.content,
                                       ArgOr(kw, "overwrite", FALSE), env.ans)
                  [] tool_name = "read_file" ->
                       tool_read_file(f, kw.path,
                                      ArgOr(kw, "max_chars", DefaultMaxChars))
                  [] tool_name = "list_files" ->
                       tool_list_files(f, ArgOr(kw, "subdir", <<>>))
                  [] tool_name = "organize_folder" ->
                       tool_organize_folder(f, ArgOr(kw, "subdir", <<>>),
                                            ArgOr(kw, "mode", "move"), env.ans)
                  [] tool_name = "delete_file" ->
                       tool_delete_file(f, kw.path, env.ans, env.typed, env.ioFails)
                  [] tool_name = "rename_file" ->
                       tool_rename_file(f, kw.src, kw.dst,
                                        ArgOr(kw, "overwrite", FALSE),
                                        env.ans, env.ioFails)]

----------------------------------------------------------------------------
(* The direct-command router.  A line of user input is the sequence of its  *)
(* words (the runs of characters between white space).                      *)

W_crea == <<"c", "r", "e", "a">>
W_el == <<"e", "l">>
W_archivo == <<"a", "r", "c", "h", "i", "v", "o">>
W_con == <<"c", "o", "n">>
W_contenido == <<"c", "o", "n", "t", "e", "n", "i", "d", "o", ":">>
W_lista == <<"l", "i", "s", "t", "a">>
W_los == <<"l", "o", "s">>
W_archivos == <<"a", "r", "c", "h", "i", "v", "o", "s">>
W_lee == <<"l", "e", "e">>
W_leer == <<"l", "e", "e", "r">>
W_salir == <<"s", "a", "l", "i", "r">>
W_exit == <<"e", "x", "i", "t">>
W_quit == <<"q", "u", "i", "t">>

\* the words joined by single blanks
RECURSIVE JoinWords(_)
JoinWords(ws) ==
    IF ws = <<>> THEN <<>>
    ELSE IF Len(ws) = 1 THEN ws[1]
    ELSE ws[1] \o <<" ">> \o JoinWords(Tail(ws))

LowerWords(ws) == [i \in 1..Len(ws) |-> Lower(ws[i])]

\* .strip().strip('"').strip("'")
Unquote(s) ==
    LET a == Strip(s)
        b == RStrip(LStrip(a, {"\""}), {"\""})
    IN  RStrip(LStrip(b, {"'"}), {"'"})

\* what run_agent_turn or the router hands back, or the exception it ends with
Reply(kind, text, tool, result) ==
    [kind |-> kind, text |-> text, tool |-> tool, result |-> result]

NoRes == [ok |-> FALSE, error |-> "none"]
NoReply == Reply("none", <<>>, "none", NoRes)

NoToolRun == [name |-> "none", ran |-> FALSE, raised |-> FALSE, res |-> NoRes]

\* positions k at which "con el contenido:" starts, leaving a path before
\* it and a content after it
ContentMarks(ws) ==
    {k \in 5..(Len(ws) - 3) :
        LowerWords(SubSeq(ws, k, k + 2)) = <<W_con, W_el, W_contenido>>}

\* try_direct_command: matched = FALSE for None; otherwise the one tool
\* the rule calls has run, and either raised or led to the reply
try_direct_command(f, user_input, env) ==
    LET lw == LowerWords(user_input)
        marks == ContentMarks(user_input)
        k == CHOOSE m \in marks : \A n \in marks : m <= n
    IN  IF Len(lw) >= 3 /\ SubSeq(lw, 1, 3) = <<W_crea, W_el, W_archivo>> /\ marks # {}
        THEN LET path == Unquote(JoinWords(SubSeq(user_input, 4, k - 1)))
                 content == JoinWords(SubSeq(user_input, k + 3, Len(user_input)))
                 o == tool_write_file(f, path, content, TRUE, env.ans)
             IN  [matched |-> TRUE, tool |-> "write_file", out |-> o,
                  reply |-> IF o.res.ok THEN Reply("created", <<>>, "write_file", o.res)
                            ELSE Reply("not_created", <<>>, "write_file", o.res)]
        ELSE IF lw = <<W_lista, W_los, W_archivos>>
        THEN LET o == tool_list_files(f, <<>>)
             IN  [matched |-> TRUE, tool |-> "list_files", out |-> o,
                  reply |-> IF o.res.ok
                            THEN IF o.res.count = 0
                                 THEN Reply("no_files", <<>>, "list_files", o.res)
                                 ELSE Reply("files", <<>>, "list_files", o.res)
                            ELSE Reply("list_error", <<>>, "list_files", o.res)]
        ELSE IF Len(lw) >= 2 /\ lw[1] \in {W_lee, W_leer}
        THEN LET path == Unquote(JoinWords(Tail(user_input)))
                 o == tool_read_file(f, path, DefaultMaxChars)
             IN  [matched |-> TRUE, tool |-> "read_file", out |-> o,
                  reply |-> IF o.res.ok THEN Reply("content", path, "read_file", o.res)
                            ELSE Reply("not_read", <<>>, "read_file", o.res)]
        ELSE [matched |-> FALSE, tool |-> "none", out |-> Returns(f, <<>>, NoRes),
              reply |-> NoReply]

----------------------------------------------------------------------------
(* The action protocol.  A model output is a sequence of characters in     *)
(* which a whole JSON document is written as one token: json.loads accepts *)
(* exactly the texts that consist of one such token.                       *)

\* a JSON value as Python holds it: its type and what it holds
JStr(x) == [t |-> "str", v |-> x]
JDict(r) == [t |-> "dict", v |-> r]
JList(xs) == [t |-> "list", v |-> xs]
JNone == [t |-> "NoneType", v |-> <<>>]

A_md == <<"a", ".", "m", "d">>

\* the JSON documents the model is taken to produce, by token: the
\* members of the object
JsonDoc(tok) ==
    CASE tok = "{reply}" -> [action |-> JStr("reply"), text |-> JStr(<<" ", "o", "k">>)]
      [] tok = "{reply-no-text}" -> [action |-> JStr("reply")]
      [] tok = "{read a}" ->
           [action |-> JStr("tool"), tool_name |-> JStr("read_file"),
            args |-> JDict([path |-> A_md])]
      [] tok = "{read up}" ->
           [action |-> JStr("tool"), tool_name |-> JStr("read_file"),
            args |-> JDict([path |-> <<".", ".", "/", "x">>])]
      [] tok = "{write b}" ->
           [action |-> JStr("tool"), tool_name |-> JStr("write_file"),
            args |-> JDict([path |-> <<"b", ".", "m", "d">>,
                            content |-> <<"a", "b">>])]
      [] tok = "{read file=}" ->
           [action |-> JStr("tool"), tool_name |-> JStr("read_file"),
            args |-> JDict([file |-> A_md])]
      [] tok = "{read no-args}" ->
           [action |-> JStr("tool"), tool_name |-> JStr("read_file")]
      [] tok = "{read extra}" ->
           [action |-> JStr("tool"), tool_name |-> JStr("read_file"),
            args |-> JDict([path |-> A_md, mode |-> <<"r">>])]
      [] tok = "{read args=[1]}" ->
           [action |-> JStr("tool"), tool_name |-> JStr("read_file"),
            args |-> JList(<<1>>)]
      [] tok = "{read args=[]}" ->
           [action |-> JStr("tool"), tool_name |-> JStr("read_file"),
            args |-> JList(<<>>)]
      [] tok = "{list no-args}" ->
           [action |-> JStr("tool"), tool_name |-> JStr("list_files")]
      [] tok = "{fly}" ->
           [action |-> JStr("tool"), tool_name |-> JStr("fly"),
            args |-> JDict([x |-> <<>>])]
      [] tok = "{no-name}" ->
           [action |-> JStr("tool"), args |-> JDict([path |-> A_md])]
      [] tok = "{name=[read_file]}" ->
           [action |-> JStr("tool"), tool_name |-> JList(<<"read_file">>),
            args |-> JDict([path |-> A_md])]
      [] tok = "{dance}" -> [action |-> JStr("dance")]
      [] tok = "{}" -> <<>>

\* tokens that are JSON objects: their text begins with "{"
ObjectTokens ==
    {"{reply}", "{reply-no-text}", "{read a}", "{read up}", "{write b}",
     "{read file=}", "{read no-args}", "{read extra}", "{read args=[1]}",
     "{read args=[]}", "{list no-args}", "{fly}", "{no-name}",
     "{name=[read_file]}", "{dance}", "{}"}
\* "[1]" is a JSON document that is no object
JsonTokens == ObjectTokens \cup {"[1]"}

\* text.startswith("{")
StartsWithBrace(text) ==
    text # <<>> /\ (Head(text) = "{" \/ Head(text) \in ObjectTokens)

\* json.loads(text)
JsonLoads(text) ==
    LET t == Strip(text)
    IN  IF Len(t) = 1 /\ t[1] \in ObjectTokens
        THEN [ok |-> TRUE, isDict |-> TRUE, value |-> JsonDoc(t[1])]
        ELSE IF Len(t) = 1 /\ t[1] \in JsonTokens
        THEN [ok |-> TRUE, isDict |-> FALSE, value |-> <<>>]
        ELSE [ok |-> FALSE, isDict |-> FALSE, value |-> <<>>]

\* a parse_action without the test for the opening brace
ParseAnyJson(text) == JsonLoads(Strip(text))

\* parse_action: ok = FALSE for None
parse_action(text) ==
    LET t == Strip(text)
    IN  IF ~StartsWithBrace(t) THEN [ok |-> FALSE, isDict |-> FALSE, value |-> <<>>]
        ELSE JsonLoads(t)

\* `not act`: None or an empty dictionary
Falsy(act) == ~act.ok \/ (act.isDict /\ DOMAIN act.value = {})

\* act.get(k)
Get(v, k) == IF k \in DOMAIN v THEN v[k] ELSE JNone

\* x == "..." for a string literal
IsStr(x, lit) == x.t = "str" /\ x.v = lit

\* `not x` for None, a list or a dictionary
PyFalsy(x) == x.t = "NoneType" \/ (x.t \in {"list", "dict"} /\ DOMAIN x.v = {})

\* hash(x) raises TypeError for lists and dictionaries
Unhashable(x) == x.t \in {"list", "dict"}

\* str(act.get("text", "")).strip()
ReplyText(v) == Strip(IF "text" \in DOMAIN v THEN v.text.v ELSE <<>>)

\* how the reply names the tool: the string, or None
ToolLabel(x) == IF x.t = "str" THEN x.v ELSE "None"

\* run_agent_turn from parse_action(raw) up to the second call_ollama:
\* done = TRUE when the turn ends here with the reply (crashed = TRUE
\* when it ends with an exception instead), done = FALSE when a tool has
\* returned its result and the follow-up prompt goes to the model
Dispatch(f, raw, env) ==
    LET act == parse_action(raw)
        v == act.value
        stop(r) == [done |-> TRUE, crashed |-> FALSE, reply |-> r, fs |-> f,
                    tool |-> NoToolRun]
        crash == [done |-> TRUE, crashed |-> TRUE, reply |-> NoReply, fs |-> f,
                  tool |-> NoToolRun]
    IN  IF act.ok /\ ~act.isDict
        THEN \* a list has no get: AttributeError
             crash
        ELSE IF Falsy(act) THEN stop(Reply("raw", Strip(raw), "none", NoRes))
        ELSE IF IsStr(Get(v, "action"), "reply")
        THEN stop(Reply("reply", ReplyText(v), "none", NoRes))
        ELSE IF IsStr(Get(v, "action"), "tool")
        THEN LET tool_name == Get(v, "tool_name")
                 given == IF "args" \in DOMAIN v THEN v.args ELSE JDict(<<>>)
                 args == IF PyFalsy(given) THEN JDict(<<>>) ELSE given
             IN  IF Unhashable(tool_name)
                 THEN \* tool_name not in TOOLS: TypeError, outside any try
                      crash
                 ELSE IF tool_name.t # "str" \/ tool_name.v \notin TOOLS
                 THEN stop(Reply("unknown_tool", <<>>, ToolLabel(tool_name), NoRes))
                 ELSE LET c == CallTool(f, tool_name.v, args, env)
                          ran == [name |-> tool_name.v, ran |-> TRUE,
                                  raised |-> c.out.raised, res |-> c.out.res]
                      IN  IF c.typeError
                          THEN stop(Reply("argument_error", <<>>, tool_name.v, NoRes))
                          ELSE IF c.out.raised
                          THEN [done |-> TRUE, crashed |-> FALSE,
                                reply |-> Reply("tool_error", <<>>, tool_name.v, NoRes),
                                fs |-> c.out.fs, tool |-> ran]
                          ELSE [done |-> FALSE, crashed |-> FALSE, reply |-> NoReply,
                                fs |-> c.out.fs, tool |-> ran]
        ELSE stop(Reply("not_understood", <<>>, "none", NoRes))

\* run_agent_turn after the second call_ollama has returned raw2
Summarize(raw2, result) ==
    LET act2 == parse_action(raw2)
    IN  IF ~Falsy(act2) /\ IsStr(Get(act2.value, "action"), "reply")
        THEN Reply("reply", ReplyText(act2.value), "none", NoRes)
        ELSE Reply("result", <<>>, "none", result)

\* a dispatch that goes on to the follow-up call whatever happened
AlwaysFollowUp(d) == "infer2"

\* where run_agent_turn stands after the dispatch: back in main when it
\* has returned or raised, at the second call_ollama otherwise
AfterDispatch(d) == IF d.done THEN "idle" ELSE "infer2"

\* the turn: where run_agent_turn stands (idle between turns), what it
\* has done so far in this turn, and how the turn ended
NoTurn ==
    [pc |-> "idle", user |-> <<>>, nOllama |-> 0, nReturned |-> 0, nTools |-> 0,
     raw |-> <<>>, raw2 |-> <<>>, tool |-> NoToolRun, direct |-> FALSE,
     outcome |-> "none", reply |-> NoReply]

TurnIdle == turn = NoTurn /\ turnNo = 0

----------------------------------------------------------------------------
(* Tool calls as steps of the program *)

\* the directories every run starts with: /, /h, the workspace /h/w and
\* its sibling /h/wx
SIBLING == << <<"h">>, <<"w", "x">> >>

BaseFS ==
    [q \in {<<>>, << <<"h">> >>, WORKSPACE, SIBLING} |-> DirNode]

NoCall ==
    [tool |-> "none", args |-> [none |-> TRUE], raised |-> FALSE,
     res |-> [ok |-> FALSE, error |-> "none"], read |-> <<>>, gates |-> <<>>,
     spawned |-> <<>>, scanned |-> {}, pre |-> BaseFS]

NoPrev ==
    [tool |-> "none", args |-> [none |-> TRUE], raised |-> FALSE,
     res |-> [ok |-> FALSE, error |-> "none"]]

PathIdle == relPath = <<>> /\ resolved = NoResult /\ spDone = FALSE
OllamaIdle == oll = OllamaNotCalled

\* the call returns or raises: the outcome o becomes the last call
Complete(tool, args, o) ==
    /\ nCalls < MaxCalls
    /\ fs' = o.fs
    /\ call' = [tool |-> tool, args |-> args, raised |-> o.raised,
                res |-> o.res, read |-> o.read, gates |-> o.gates,
                spawned |-> o.spawned, scanned |-> o.scanned, pre |-> fs]
    /\ prev' = [tool |-> call.tool, args |-> call.args,
                raised |-> call.raised, res |-> call.res]
    /\ nCalls' = nCalls + 1
    /\ UNCHANGED <<approvalRequired, pathVars, ollVars, turnVars>>

\* path strings handed to the tools
S_a == <<"a", ".", "m", "d">>
S_b == <<"b", ".", "m", "d">>
S_d == <<"d">>
S_dot_a == <<".", "/", "a", ".", "m", "d">>
S_up == <<".", ".", "/", "x">>
S_sib == <<".", ".", "/", "w", "x", "/", "s">>

\* file contents
T_ab == <<"a", "b">>
T_cr == <<"a", "\r", "b">>
T_lf == <<"a", "\n", "b">>

\* lines the operator may type at the S/N prompt
Answers == {<<"s">>, <<" ", "S">>, <<"n">>}

WriteFile(paths, contents) ==
    \E path \in paths, content \in contents, overwrite \in BOOLEAN, ans \in Answers :
        Complete("write_file",
                 [path |-> path, content |-> content, overwrite |-> overwrite],
                 tool_write_file(fs, path, content, overwrite, ans))

ReadFile(paths, limits) ==
    \E path \in paths, max_chars \in limits :
        Complete("read_file", [path |-> path, max_chars |-> max_chars],
                 tool_read_file(fs, path, max_chars))

DeleteFile(paths, names) ==
    \E path \in paths, ans \in Answers, typed \in names, ioFails \in BOOLEAN :
        Complete("delete_file", [path |-> path],
                 tool_delete_file(fs, path, ans, typed, ioFails))

RenameFile(srcs, dsts) ==
    \E src \in srcs, dst \in dsts, overwrite \in BOOLEAN, ans \in Answers,
       ioFails \in BOOLEAN :
        Complete("rename_file",
                 [src |-> src, dst |-> dst, overwrite |-> overwrite],
                 tool_rename_file(fs, src, dst, overwrite, ans, ioFails))

OpenApp(keys) ==
    \E app_key \in keys, ans \in Answers, popenFails \in BOOLEAN :
        Complete("open_app", [app_key |-> app_key],
                 tool_open_app(fs, app_key, ans, popenFails))

\* the sequences that list every element of S once
Orders(S) ==
    {o \in [1..Cardinality(S) -> S] :
        \A i, j \in 1..Cardinality(S) : i # j => o[i] # o[j]}

\* the regular files rglob can yield for subdir, in any order (the
\* directories it yields as well are passed over by the loop)
ScanOrders(f, subdir) ==
    LET sp == IF subdir # <<>> THEN safe_path(subdir)
                                ELSE [raised |-> FALSE, path |-> WORKSPACE]
    IN  IF sp.raised THEN {<<>>}
        ELSE Orders({p \in Below(f, sp.path) : IsFile(f, p)})

SearchText(queries, subdirs, limits) ==
    \E query \in queries, subdir \in subdirs, case_sensitive \in BOOLEAN,
       max_hits \in limits, ans \in Answers :
        \E order \in ScanOrders(fs, subdir) :
            Complete("search_text",
                     [query |-> query, subdir |-> subdir,
                      case_sensitive |-> case_sensitive, max_hits |-> max_hits,
                      order |-> order],
                     tool_search_text(fs, query, subdir, case_sensitive, max_hits,
                                      ans, order))

\* datetime.now().strftime("%Y-%m-%d"), shortened
Today == <<"2", "6">>

CreateProjectFolder(projects, aliases) ==
    \E project \in projects, include_date \in BOOLEAN, project_name \in aliases,
       ans \in Answers :
        Complete("create_project_folder",
                 [project |-> project, include_date |-> include_date,
                  project_name |-> project_name, folder_name |-> <<>>],
                 tool_create_project_folder(fs, project, include_date,
                                            project_name, <<>>, ans, Today))

----------------------------------------------------------------------------
(* SpecFiles: write_file, read_file, delete_file and rename_file called    *)
(* one after the other on a small workspace                                *)

\* a workspace holding a.md, the directory d and d/b.md; a file s in the
\* sibling directory
FilesFS ==
    [q \in DOMAIN BaseFS \cup
           {WORKSPACE \o <<S_a>>, WORKSPACE \o <<S_d>>,
            WORKSPACE \o <<S_d, S_b>>, SIBLING \o << <<"s">> >>} |->
        IF q = WORKSPACE \o <<S_a>> THEN FileNode(T_ab)
        ELSE IF q = WORKSPACE \o <<S_d, S_b>> THEN FileNode(T_lf)
        ELSE IF q = SIBLING \o << <<"s">> >> THEN FileNode(<<"x">>)
        ELSE DirNode]

InitFiles ==
    /\ PathIdle
    /\ OllamaIdle
    /\ TurnIdle
    /\ approvalRequired \in BOOLEAN
    /\ fs \in {BaseFS, FilesFS}
    /\ call = NoCall
    /\ prev = NoPrev
    /\ nCalls = 0

NextFiles ==
    \/ WriteFile({S_a, S_b, S_d, S_up}, {T_ab, T_cr, T_lf})
    \/ ReadFile({S_a, S_b, S_d, S_up}, {1, DefaultMaxChars})
    \/ DeleteFile({S_a, S_b, S_d, S_up, S_sib}, {S_a, <<" ">> \o S_a, S_b})

SpecFiles == InitFiles /\ [][NextFiles]_vars

\* the workspace path the string s names, when safe_path accepts it
Target(s) == safe_path(s).path

\* C2: a delete_file call on an existing file removes it only when the
\* S/N approval was given (or approval is switched off) and the operator
\* then typed the file's name (surrounding blanks aside); in every other
\* run of the call it returns ok=false and leaves the file system, the
\* file and its content included, as it was.
C2_DeleteNeedsBothGates ==
    (call.tool = "delete_file" /\ ~safe_path(call.args.path).raised
       /\ IsFile(call.pre, Target(call.args.path)))
    => LET t == Target(call.args.path)
           typedAt == IF approvalRequired THEN 2 ELSE 1
           gate1 == approvalRequired =>
                      (Len(call.read) >= 1 /\ Lower(Strip(call.read[1])) = <<"s">>)
           gate2 == Len(call.read) >= typedAt
                      /\ Strip(call.read[typedAt]) = Name(t)
           removed == ~Exists(fs, t)
       IN  /\ ~call.raised
           /\ removed => (gate1 /\ gate2 /\ call.res.ok)
           /\ ~removed => (~call.res.ok /\ fs = call.pre)
           /\ ~(gate1 /\ gate2) => ~removed

\* the first gate accepted, the second mismatched, the file still there
C2_SecondGateMismatch ==
    /\ call.tool = "delete_file"
    /\ approvalRequired
    /\ Len(call.read) = 2
    /\ Lower(Strip(call.read[1])) = <<"s">>
    /\ Strip(call.read[2]) # Name(Target(call.args.path))
    /\ IsFile(fs, Target(call.args.path))
    /\ ~call.res.ok

\* C3: no tool call ends with an exception; every failure is a returned
\* result with ok=false.
C3_ToolsNeverRaise == call.tool # "none" => ~call.raised

\* what read_file is to return for a text c written just before
RoundTrip(c, max_chars) ==
    IF Len(c) <= max_chars THEN c ELSE SubSeq(c, 1, max_chars) \o TruncMarker

\* C6: a successful write_file(p, c) directly followed by
\* read_file(p, max_chars) returns c, cut to max_chars characters plus the
\* truncation marker when c is longer.
C6_WriteReadRoundTrip ==
    (/\ call.tool = "read_file"
     /\ prev.tool = "write_file"
     /\ ~prev.raised
     /\ prev.res.ok
     /\ call.args.path = prev.args.path)
    => (/\ ~call.raised
        /\ call.res.ok
        /\ call.res.content = RoundTrip(prev.args.content, call.args.max_chars))

----------------------------------------------------------------------------
(* SpecRename: rename_file called on a workspace with files to rename and  *)
(* to overwrite                                                            *)

S_db == <<"d", "/", "b", ".", "m", "d">>
S_nb == <<"n", "/", "b", ".", "m", "d">>

InitRename ==
    /\ PathIdle
    /\ OllamaIdle
    /\ TurnIdle
    /\ approvalRequired \in BOOLEAN
    /\ fs = FilesFS
    /\ call = NoCall
    /\ prev = NoPrev
    /\ nCalls = 0

NextRename ==
    RenameFile({S_a, S_b, S_d, S_db}, {S_dot_a, S_b, S_db, S_nb, S_d, S_up})

SpecRename == InitRename /\ [][NextRename]_vars

\* C4: rename_file onto an existing destination with overwrite=false
\* returns ok=false and changes nothing; with overwrite=true a call that
\* returns ok=true leaves the former content of src at dst and no src.
C4_RenameOverwrite ==
    (call.tool = "rename_file" /\ ~safe_path(call.args.src).raised
       /\ ~safe_path(call.args.dst).raised)
    => LET src == Target(call.args.src)
           dst == Target(call.args.dst)
       IN  /\ (Exists(call.pre, dst) /\ ~call.args.overwrite)
                => (~call.raised /\ ~call.res.ok /\ fs = call.pre)
           /\ (call.args.overwrite /\ ~call.raised /\ call.res.ok)
                => (/\ IsFile(call.pre, src)
                    /\ IsFile(fs, dst)
                    /\ fs[dst] = call.pre[src]
                    /\ ~Exists(fs, src))

\* an existing destination with other content was replaced
C4_Overwritten ==
    /\ call.tool = "rename_file"
    /\ call.args.overwrite
    /\ call.res.ok
    /\ IsFile(call.pre, Target(call.args.dst))
    /\ call.pre[Target(call.args.dst)] # call.pre[Target(call.args.src)]
    /\ fs[Target(call.args.dst)] = call.pre[Target(call.args.src)]

\* C18: after a rename_file call has returned, the content that was at
\* src before the call is at src or at dst, whatever src, dst and
\* overwrite were (dst naming the same file as src included).
C18_RenameKeepsContent ==
    (/\ call.tool = "rename_file"
     /\ ~call.raised
     /\ ~safe_path(call.args.src).raised
     /\ ~safe_path(call.args.dst).raised
     /\ IsFile(call.pre, Target(call.args.src)))
    => LET src == Target(call.args.src)
           dst == Target(call.args.dst)
       IN  \/ IsFile(fs, src) /\ fs[src] = call.pre[src]
           \/ IsFile(fs, dst) /\ fs[dst] = call.pre[src]

----------------------------------------------------------------------------
(* SpecOrganize: organize_folder run up to MaxCalls times in a row         *)

S_B_PY == <<"B", ".", "P", "Y">>
S_n == <<"n">>
S_c == <<"c", ".", "m", "d">>

\* a.md, B.PY and n at the top of the workspace, c.md in the directory d
OrganizeFS ==
    [q \in DOMAIN BaseFS \cup
           {WORKSPACE \o <<S_a>>, WORKSPACE \o <<S_B_PY>>, WORKSPACE \o <<S_n>>,
            WORKSPACE \o <<S_d>>, WORKSPACE \o <<S_d, S_c>>} |->
        IF q = WORKSPACE \o <<S_a>> THEN FileNode(T_ab)
        ELSE IF q = WORKSPACE \o <<S_B_PY>> THEN FileNode(T_lf)
        ELSE IF q = WORKSPACE \o <<S_n>> THEN FileNode(<<>>)
        ELSE IF q = WORKSPACE \o <<S_d, S_c>> THEN FileNode(T_cr)
        ELSE DirNode]

\* the same with a regular file called otros where a category folder goes
OrganizeBlockedFS == Put(OrganizeFS, WORKSPACE \o <<OTROS>>, FileNode(<<>>))

OrganizeFolder(subdirs, modes) ==
    \E subdir \in subdirs, mode \in modes, ans \in Answers :
        Complete("organize_folder", [subdir |-> subdir, mode |-> mode],
                 tool_organize_folder(fs, subdir, mode, ans))

InitOrganize ==
    /\ PathIdle
    /\ OllamaIdle
    /\ TurnIdle
    /\ approvalRequired \in BOOLEAN
    /\ fs \in {BaseFS, OrganizeFS, OrganizeBlockedFS}
    /\ call = NoCall
    /\ prev = NoPrev
    /\ nCalls = 0

NextOrganize == OrganizeFolder({<<>>, S_d, S_b, S_up}, {"move", "copy", "link"})

SpecOrganize == InitOrganize /\ [][NextOrganize]_vars

\* C5: organize_folder run twice in a row with the same arguments, both
\* runs approved and returning ok=true: the second run reports
\* moved_count = 0 and leaves the tree as the first run left it.
C5_OrganizeIdempotent ==
    (/\ call.tool = "organize_folder"
     /\ prev.tool = "organize_folder"
     /\ call.args = prev.args
     /\ ~prev.raised /\ prev.res.ok
     /\ ~call.raised /\ call.res.ok)
    => (call.res.moved_count = 0 /\ fs = call.pre)


----------------------------------------------------------------------------
(* SpecGated: the tools that ask for approval, called one after the other  *)

\* the tools that call require_approval or double_confirm_delete
GatedTools ==
    {"write_file", "open_app", "organize_folder", "delete_file", "rename_file",
     "search_text", "create_project_folder"}

P_Demo == <<"D", "e", "m", "o">>
P_blank == <<" ", "?">>

InitGated ==
    /\ PathIdle
    /\ OllamaIdle
    /\ TurnIdle
    /\ approvalRequired \in BOOLEAN
    /\ fs = FilesFS
    /\ call = NoCall
    /\ prev = NoPrev
    /\ nCalls = 0

NextGated ==
    \/ WriteFile({S_a, S_b}, {T_ab})
    \/ DeleteFile({S_a, S_b}, {S_a})
    \/ RenameFile({S_a, S_b}, {S_a, S_b})
    \/ OrganizeFolder({<<>>, S_b}, {"move", "link"})
    \/ OpenApp({"chrome", "bash"})
    \/ SearchText({<<"a">>}, {<<>>, S_b}, {DefaultMaxHits})
    \/ CreateProjectFolder({P_Demo, P_blank}, {<<>>})

SpecGated == InitGated /\ [][NextGated]_vars

\* the first line the call read from the operator says yes
Approved(c) == Len(c.read) >= 1 /\ Lower(Strip(c.read[1])) = <<"s">>

\* the call changed the file system, read a file's content or started a
\* process
HadEffect(c, f) == f # c.pre \/ c.scanned # {} \/ c.spawned # <<>>

\* C12: with approval required, a call of a gated tool changes the file
\* system, reads file contents or starts a process only when the operator
\* answered the approval prompt of that call with S (in either case,
\* blanks around it aside); after any other answer the call returns
\* ok=false and the file system is as it was.
C12_NoEffectWithoutApproval ==
    (approvalRequired /\ call.tool \in GatedTools)
    => /\ HadEffect(call, fs) => Approved(call)
       /\ (call.read # <<>> /\ ~Approved(call))
            => (~call.raised /\ ~call.res.ok /\ ~HadEffect(call, fs))

\* search_text was refused at its prompt and read no file
C12_SearchRefused ==
    /\ approvalRequired
    /\ call.tool = "search_text"
    /\ call.read = << <<"n">> >>
    /\ ~call.res.ok
    /\ call.scanned = {}

\* C13: with approval switched off, a call of a gated tool, delete_file
\* included, ends without having read a line from the operator.
C13_HeadlessNeverWaits ==
    (~approvalRequired /\ call.tool \in GatedTools) => call.read = <<>>

\* the folder name the call's arguments come to, empty when none is left
CallFolderName(c) ==
    FolderNameFinal(c.args.project, c.args.include_date, c.args.project_name,
                    c.args.folder_name, Today)

\* the place proyectos/<name> of the call
CallFolder(c) == safe_path(PROYECTOS \o <<"/">> \o CallFolderName(c)).path

\* C17: open_app starts a process only for a key of ALLOWED_APPS and
\* after the operator's approval (when approval is required), and what it
\* starts is the argument vector of that key, without a shell; for any
\* other key it returns ok=false, starts nothing and shows no prompt.
C17_OnlyWhitelistedApps ==
    call.tool = "open_app"
    => LET app_key == call.args.app_key
       IN  /\ call.spawned # <<>>
                => (/\ app_key \in DOMAIN ALLOWED_APPS
                    /\ approvalRequired => Approved(call)
                    /\ call.spawned = <<[args |-> ALLOWED_APPS[app_key].cmd,
                                         shell |-> FALSE]>>)
           /\ app_key \notin DOMAIN ALLOWED_APPS
                => (/\ ~call.raised
                    /\ ~call.res.ok
                    /\ call.spawned = <<>>
                    /\ call.read = <<>>)

\* chrome was approved and started through its argument vector
C17_ChromeStarted ==
    /\ call.tool = "open_app"
    /\ call.args.app_key = "chrome"
    /\ approvalRequired
    /\ Approved(call)
    /\ call.res.ok
    /\ call.spawned = <<[args |-> <<"cmd.exe", "/c", "start", "chrome">>,
                         shell |-> FALSE]>>

\* the call is one of those that fail on their arguments or on the state
\* of the workspace: write_file on an existing target without overwrite,
\* rename_file with a missing src or an existing dst without overwrite,
\* delete_file on a missing target, organize_folder with an invalid mode,
\* open_app with a key that is not whitelisted, create_project_folder
\* with no name left after cleaning
FailsOnPrecondition(c) ==
    \/ /\ c.tool = "write_file"
       /\ ~safe_path(c.args.path).raised
       /\ Exists(c.pre, Target(c.args.path)) /\ ~c.args.overwrite
    \/ /\ c.tool = "rename_file"
       /\ ~safe_path(c.args.src).raised /\ ~safe_path(c.args.dst).raised
       /\ \/ ~IsFile(c.pre, Target(c.args.src))
          \/ Exists(c.pre, Target(c.args.dst)) /\ ~c.args.overwrite
    \/ /\ c.tool = "delete_file"
       /\ ~safe_path(c.args.path).raised
       /\ ~IsFile(c.pre, Target(c.args.path))
    \/ /\ c.tool = "organize_folder"
       /\ c.args.mode \notin {"move", "copy"}
    \/ /\ c.tool = "open_app"
       /\ c.args.app_key \notin DOMAIN ALLOWED_APPS
    \/ /\ c.tool = "create_project_folder"
       /\ CallFolderName(c) = <<>>

\* C20: a gated tool called with arguments or on a workspace that make it
\* fail for one of these reasons returns ok=false without having shown a
\* prompt and with the file system unchanged.
C20_PreconditionsBeforePrompt ==
    FailsOnPrecondition(call)
    => (/\ ~call.raised
        /\ ~call.res.ok
        /\ call.read = <<>>
        /\ fs = call.pre)

\* write_file met an existing target without overwrite and asked nothing
C20_ExistingTargetNoPrompt ==
    /\ call.tool = "write_file"
    /\ approvalRequired
    /\ IsFile(call.pre, Target(call.args.path))
    /\ ~call.args.overwrite
    /\ ~call.res.ok
    /\ call.read = <<>>

----------------------------------------------------------------------------
(* SpecProject: create_project_folder called on an empty workspace and on  *)
(* workspaces where a regular file stands in the way                       *)

P_dots == <<".", ".">>
P_dot == <<".">>
P_slash == <<" ", "a", "/", "b", " ">>

\* a regular file called proyectos in the workspace
ProjectBlockedFS == Put(BaseFS, WORKSPACE \o <<PROYECTOS>>, FileNode(<<>>))

\* the project folder of Demo with a regular file called notas in it
ProjectHalfFS ==
    [q \in DOMAIN BaseFS \cup
           {WORKSPACE \o <<PROYECTOS>>, WORKSPACE \o <<PROYECTOS, P_Demo>>,
            WORKSPACE \o <<PROYECTOS, P_Demo, ProjectSubfolders[3]>>} |->
        IF q = WORKSPACE \o <<PROYECTOS, P_Demo, ProjectSubfolders[3]>>
        THEN FileNode(<<>>)
        ELSE DirNode]

InitProject ==
    /\ PathIdle
    /\ OllamaIdle
    /\ TurnIdle
    /\ approvalRequired \in BOOLEAN
    /\ fs \in {BaseFS, ProjectBlockedFS, ProjectHalfFS}
    /\ call = NoCall
    /\ prev = NoPrev
    /\ nCalls = 0

NextProject ==
    CreateProjectFolder({<<>>, P_Demo, P_dots, P_dot, P_blank, P_slash},
                        {<<>>, P_Demo})

SpecProject == InitProject /\ [][NextProject]_vars

\* the names of the entries of the directory d
Children(f, d) == {Name(p) : p \in {q \in DOMAIN f : q # <<>> /\ Parent(q) = d}}

SubfolderNames == {ProjectSubfolders[i] : i \in 1..Len(ProjectSubfolders)}

\* a create_project_folder call with a name left after cleaning and the
\* approval given (or switched off)
ProjectCallApproved(c) ==
    /\ c.tool = "create_project_folder"
    /\ CallFolderName(c) # <<>>
    /\ (approvalRequired => Approved(c))

\* the folder is there and holds the four subfolders
ProjectFolderReady(f, d) ==
    /\ IsDir(f, d)
    /\ \A sub \in SubfolderNames : IsDir(f, d \o <<sub>>)

\* nothing but the workspace directories existed before the call
EmptyWorkspace(f) == f = BaseFS

\* C15 as stated: create_project_folder with a name left after cleaning
\* and the approval given returns ok=true and leaves proyectos/<name>
\* with the subfolders entrada, salida, notas and assets; on an empty
\* workspace, project "Demo" and no date give a proyectos/Demo that holds
\* exactly those four.
C15_ProjectCreated ==
    ProjectCallApproved(call)
    => /\ ~call.raised
       /\ call.res.ok
       /\ ProjectFolderReady(fs, CallFolder(call))
       /\ (EmptyWorkspace(call.pre) /\ CallFolderName(call) = P_Demo)
            => Children(fs, WORKSPACE \o <<PROYECTOS, P_Demo>>) = SubfolderNames

\* no regular file stands at proyectos, at the project folder or at the
\* name of one of its subfolders
NothingInTheWay(f, d) ==
    /\ \A k \in 1..Len(d) : ~IsFile(f, SubSeq(d, 1, k))
    /\ \A sub \in SubfolderNames : ~IsFile(f, d \o <<sub>>)

\* C15 amended: the same for the calls that find no regular file at
\* proyectos, at the project folder or at the name of a subfolder.
C15_ProjectCreatedUnlessBlocked ==
    (ProjectCallApproved(call) /\ NothingInTheWay(call.pre, CallFolder(call)))
    => /\ ~call.raised
       /\ call.res.ok
       /\ ProjectFolderReady(fs, CallFolder(call))
       /\ (EmptyWorkspace(call.pre) /\ CallFolderName(call) = P_Demo)
            => Children(fs, WORKSPACE \o <<PROYECTOS, P_Demo>>) = SubfolderNames

\* Demo was created without a date on the empty workspace
C15_DemoCreated ==
    /\ call.tool = "create_project_folder"
    /\ call.pre = BaseFS
    /\ call.args.project = P_Demo
    /\ ~call.args.include_date
    /\ call.res.ok
    /\ Children(fs, WORKSPACE \o <<PROYECTOS, P_Demo>>) = SubfolderNames

\* C19: every directory a create_project_folder call creates is
\* proyectos itself or lies in one folder proyectos/<name>, whatever
\* project name is left after cleaning.
C19_CreatedUnderProyectos ==
    call.tool = "create_project_folder"
    => LET created == DOMAIN fs \ DOMAIN call.pre
           root == WORKSPACE \o <<PROYECTOS>>
       IN  \A p \in created :
              p = root \/ IsUnder(p, root \o <<CallFolderName(call)>>)

----------------------------------------------------------------------------
(* SpecSearch: search_text called on a workspace with two text files      *)

S_t == <<"t", ".", "m", "d">>
S_u == <<"u", ".", "p", "y">>

\* four lines, three of which hold the letter a in one case or the other
T_lines == <<"a", "\n", "b", "\n", "A", "\n", "x", "a">>

\* t.md at the top of the workspace, u.py in the directory d
SearchFS ==
    [q \in DOMAIN BaseFS \cup
           {WORKSPACE \o <<S_t>>, WORKSPACE \o <<S_d>>, WORKSPACE \o <<S_d, S_u>>} |->
        IF q = WORKSPACE \o <<S_t>> THEN FileNode(T_lines)
        ELSE IF q = WORKSPACE \o <<S_d, S_u>> THEN FileNode(<<"a">>)
        ELSE DirNode]

InitSearch ==
    /\ PathIdle
    /\ OllamaIdle
    /\ TurnIdle
    /\ approvalRequired \in BOOLEAN
    /\ fs = SearchFS
    /\ call = NoCall
    /\ prev = NoPrev
    /\ nCalls = 0

NextSearch ==
    SearchText({<<"a">>, <<"z">>}, {<<>>}, {0, 2, 3, DefaultMaxHits})

SpecSearch == InitSearch /\ [][NextSearch]_vars

\* the numbers of the lines of the file p that hold q, in rising order
RECURSIVE MatchingLines(_, _, _, _)
MatchingLines(lines, q, case_sensitive, from) ==
    IF from > Len(lines) THEN <<>>
    ELSE (IF Contains(IF case_sensitive THEN q ELSE Lower(q),
                      IF case_sensitive THEN lines[from] ELSE Lower(lines[from]))
          THEN <<from>> ELSE <<>>)
         \o MatchingLines(lines, q, case_sensitive, from + 1)

\* every matching line of the text files in the order of the scan
RECURSIVE AllMatches(_, _, _, _)
AllMatches(f, order, q, case_sensitive) ==
    IF order = <<>> THEN <<>>
    ELSE LET p == Head(order)
             lines == SplitLines(DecodeText(f[p].data))
             nums == IF Lower(Suffix(Name(p))) \in TEXT_EXTS
                     THEN MatchingLines(lines, q, case_sensitive, 1)
                     ELSE <<>>
         IN  [i \in 1..Len(nums) |->
                 [file |-> SubSeq(p, Len(WORKSPACE) + 1, Len(p)),
                  line |-> nums[i], text |-> lines[nums[i]]]]
             \o AllMatches(f, Tail(order), q, case_sensitive)

\* C16: a search_text call that returns ok=true reports matching lines in
\* the order of the scan with their 1-based numbers, never more than
\* max_hits of them; truncated=true says that the scan stopped at
\* max_hits hits, truncated=false that every matching line is reported.
C16_SearchHits ==
    (call.tool = "search_text" /\ ~call.raised /\ call.res.ok)
    => LET all == AllMatches(call.pre, call.args.order, call.args.query,
                             call.args.case_sensitive)
           hits == call.res.hits
       IN  /\ Len(hits) <= Len(all)
           /\ hits = SubSeq(all, 1, Len(hits))
           /\ Len(hits) <= call.args.max_hits
           /\ call.res.truncated => Len(hits) = call.args.max_hits
           /\ ~call.res.truncated => hits = all

----------------------------------------------------------------------------
(* SpecPath: safe_path applied to every short input string *)

PathAlphabet == {"/", ".", "w", "x", "\\", " "}

InitPath ==
    /\ relPath \in SeqsUpTo(PathAlphabet, MaxPathLen)
    /\ resolved = NoResult
    /\ spDone = FALSE
    /\ approvalRequired = TRUE
    /\ fs = BaseFS
    /\ call = NoCall
    /\ prev = NoPrev
    /\ nCalls = 0
    /\ OllamaIdle
    /\ TurnIdle

SafePathCall ==
    /\ ~spDone
    /\ resolved' = safe_path(relPath)
    /\ spDone' = TRUE
    /\ UNCHANGED <<relPath, toolVars, ollVars, turnVars>>

NextPath == SafePathCall

SpecPath == InitPath /\ [][NextPath]_vars

\* C1: whatever string safe_path is given, it either raises the
\* out-of-workspace error or returns a path equal to or nested under
\* WORKSPACE.
C1_SafePathConfined ==
    spDone => (resolved.raised \/ IsUnder(resolved.path, WORKSPACE))

----------------------------------------------------------------------------
(* SpecTurn: main reads one line after the other and runs a turn for each  *)

\* lines the user types
U_hola == << <<"h", "o", "l", "a">> >>
U_lista == << <<"L", "i", "s", "t", "a">>, W_los, W_archivos >>
U_lee_a == <<W_lee, S_a>>
U_leer_up == <<W_leer, S_up>>
U_crea == <<W_crea, W_el, W_archivo, <<"\"">> \o S_b \o <<"\"">>, W_con, W_el,
            W_contenido, <<"a">>, <<"b">> >>
\* near misses of the rules: a read without a path, a create without content
U_lee == <<W_lee>>
U_crea_sin == <<W_crea, W_el, W_archivo, S_b>>
UserInputs == {U_hola, U_lista, U_lee_a, U_leer_up, U_crea, U_lee, U_crea_sin}

\* texts the model answers the first prompt with
ModelOutputs ==
    {<<"h", "i">>, <<"h", "i", "\n">>, <<"{", "h">>, <<"{reply}">>,
     <<"{reply}", "x">>, <<"{reply-no-text}">>, <<"{read a}">>,
     <<"\n", "{read a}">>, <<"{read up}">>, <<"{write b}">>, <<"{read file=}">>,
     <<"{read no-args}">>, <<"{read extra}">>, <<"{read args=[1]}">>,
     <<"{read args=[]}">>, <<"{list no-args}">>, <<"{fly}">>, <<"{no-name}">>,
     <<"{name=[read_file]}">>, <<"{dance}">>, <<"{}">>, <<"[1]">>}

\* texts the model answers the follow-up prompt with
SummaryOutputs == {<<"{reply}">>, <<"h", "i">>, <<"{read a}">>, <<"{", "h">>}

\* what the requests of one call_ollama come to: answered at once,
\* answered at the last attempt, or failing throughout
InferenceRuns(texts) ==
    {<<HttpOk(t)>> : t \in texts}
        \cup {<<NetError, HttpGarbage, HttpOk(t)>> : t \in texts}
        \cup {[i \in 1..LoopPasses |-> HttpError(500)]}

\* what the operator does at the prompts of a turn
TurnEnvs == [ans : {<<"s">>, <<"n">>}, typed : {S_a}, ioFails : {FALSE}]

InitTurn ==
    /\ PathIdle
    /\ approvalRequired = TRUE
    /\ fs = FilesFS
    /\ call = NoCall
    /\ prev = NoPrev
    /\ nCalls = 0
    /\ OllamaIdle
    /\ TurnIdle

\* main reads a line that asks to leave
MainExit ==
    /\ turn.pc = "idle"
    /\ \E user \in {<<W_salir>>, <<W_exit>>, <<W_quit>>} :
          turn' = [NoTurn EXCEPT !.pc = "exited", !.user = user]
    /\ UNCHANGED <<pathVars, toolVars, ollVars, turnNo>>

\* a run_agent_turn that goes on to the model after a direct command
StartTurnThenInfer ==
    /\ turn.pc = "idle"
    /\ turnNo < MaxTurns
    /\ \E user \in UserInputs, env \in TurnEnvs :
          \E d \in {try_direct_command(fs, user, env)} :
              /\ fs' = d.out.fs
              /\ turn' = [NoTurn EXCEPT
                            !.user = user, !.direct = d.matched, !.pc = "infer1",
                            !.nTools = IF d.matched THEN 1 ELSE 0,
                            !.tool = IF d.matched
                                     THEN [name |-> d.tool, ran |-> TRUE,
                                           raised |-> d.out.raised,
                                           res |-> d.out.res]
                                     ELSE NoToolRun]
    /\ turnNo' = turnNo + 1
    /\ UNCHANGED <<pathVars, approvalRequired, call, prev, nCalls, ollVars>>

\* main reads a line and calls run_agent_turn, which tries the direct
\* commands: a matching rule runs its tool and ends the turn
StartTurn ==
    /\ turn.pc = "idle"
    /\ turnNo < MaxTurns
    /\ \E user \in UserInputs, env \in TurnEnvs :
          LET d == try_direct_command(fs, user, env)
          IN  IF d.matched
              THEN /\ fs' = d.out.fs
                   /\ turn' = [NoTurn EXCEPT
                                 !.user = user, !.direct = TRUE, !.nTools = 1,
                                 !.tool = [name |-> d.tool, ran |-> TRUE,
                                           raised |-> d.out.raised,
                                           res |-> d.out.res],
                                 !.outcome = IF d.out.raised THEN "failed"
                                             ELSE "returned",
                                 !.reply = IF d.out.raised THEN NoReply
                                           ELSE d.reply]
              ELSE /\ fs' = fs
                   /\ turn' = [NoTurn EXCEPT !.user = user, !.pc = "infer1"]
    /\ turnNo' = turnNo + 1
    /\ UNCHANGED <<pathVars, approvalRequired, call, prev, nCalls, ollVars>>

\* raw = call_ollama(build_prompt(user_input))
Infer1 ==
    /\ turn.pc = "infer1"
    /\ \E run \in InferenceRuns(ModelOutputs) :
          LET r == call_ollama(run)
          IN  turn' = IF r.pc = "raised"
                      THEN [turn EXCEPT !.pc = "idle", !.nOllama = @ + 1,
                                        !.outcome = "failed"]
                      ELSE [turn EXCEPT !.pc = "dispatch", !.nOllama = @ + 1,
                                        !.nReturned = @ + 1, !.raw = r.out]
    /\ UNCHANGED <<pathVars, toolVars, ollVars, turnNo>>

\* parse_action(raw) and what follows from it, the tool call included
DispatchAction ==
    /\ turn.pc = "dispatch"
    /\ \E env \in TurnEnvs :
          \E d \in {Dispatch(fs, turn.raw, env)} :
              /\ fs' = d.fs
              /\ turn' = [turn EXCEPT
                            !.pc = AfterDispatch(d),
                            !.tool = d.tool,
                            !.nTools = IF d.tool.ran THEN @ + 1 ELSE @,
                            !.reply = d.reply,
                            !.outcome = IF ~d.done THEN "none"
                                        ELSE IF d.crashed THEN "failed"
                                        ELSE "returned"]
    /\ UNCHANGED <<pathVars, approvalRequired, call, prev, nCalls, ollVars, turnNo>>

\* raw2 = call_ollama(followup) and the reply made of it
Infer2 ==
    /\ turn.pc = "infer2"
    /\ \E run \in InferenceRuns(SummaryOutputs) :
          LET r == call_ollama(run)
          IN  turn' = IF r.pc = "raised"
                      THEN [turn EXCEPT !.pc = "idle", !.nOllama = @ + 1,
                                        !.outcome = "failed"]
                      ELSE [turn EXCEPT !.pc = "idle", !.nOllama = @ + 1,
                                        !.nReturned = @ + 1, !.raw2 = r.out,
                                        !.outcome = "returned",
                                        !.reply = Summarize(r.out, turn.tool.res)]
    /\ UNCHANGED <<pathVars, toolVars, ollVars, turnNo>>

NextTurn == MainExit \/ StartTurn \/ Infer1 \/ DispatchAction \/ Infer2

SpecTurn == InitTurn /\ [][NextTurn]_vars

\* the first model output has arrived and the dispatch on it is over
FirstOutputHandled == turn.nReturned >= 1 /\ turn.pc # "dispatch"

\* the turn ended with the first output handed back as it is
RepliedWith(text) ==
    /\ turn.pc = "idle"
    /\ turn.outcome = "returned"
    /\ turn.reply = Reply("raw", text, "none", NoRes)
    /\ turn.nTools = 0
    /\ turn.nOllama = 1

\* C8 as stated: a first model output that does not begin with "{" or is
\* not JSON is returned verbatim as the reply, with no tool invoked and no
\* second inference call.
C8_NonJsonVerbatim ==
    (FirstOutputHandled /\ (~StartsWithBrace(turn.raw) \/ ~JsonLoads(turn.raw).ok))
    => RepliedWith(turn.raw)

\* C8 amended: a first model output that, with the white space around it
\* removed, does not begin with "{" or is not JSON is returned with that
\* white space removed as the reply, with no tool invoked and no second
\* inference call.
C8_NonJsonStripped ==
    (FirstOutputHandled
       /\ (~StartsWithBrace(Strip(turn.raw)) \/ ~JsonLoads(Strip(turn.raw)).ok))
    => RepliedWith(Strip(turn.raw))

\* a plain text with a newline after it came back without the newline
C8_PlainTextReplied ==
    /\ FirstOutputHandled
    /\ turn.raw = <<"h", "i", "\n">>
    /\ RepliedWith(<<"h", "i">>)

\* C9: a turn in which the action protocol ran a tool that returned its
\* result ends by returning the text of the second model response, when
\* that is a reply action, or else the rendering of the tool's result.
C9_NoDeadEnd ==
    (turn.pc = "idle" /\ ~turn.direct /\ turn.tool.ran /\ ~turn.tool.raised)
    => (/\ turn.outcome = "returned"
        /\ \/ turn.reply = Reply("reply", ReplyText(parse_action(turn.raw2).value),
                                 "none", NoRes)
           \/ turn.reply = Reply("result", <<>>, "none", turn.tool.res))

\* C10: a turn makes at most two call_ollama calls and runs at most one
\* tool, the second call only after the action protocol has run a tool;
\* main starts a turn only when the one before has returned or failed.
C10_TurnBudget ==
    /\ [](/\ turn.nOllama <= 2
          /\ turn.nTools <= 1
          /\ turn.nOllama = 2 => (turn.nTools = 1 /\ turn.tool.ran /\ ~turn.direct)
          /\ turn.pc \in {"infer1", "dispatch", "infer2"} => turn.outcome = "none")
    /\ [][turnNo' # turnNo =>
            (turn.pc = "idle" /\ (turnNo = 0 \/ turn.outcome # "none"))]_vars

\* a second turn that ran a tool between two inference calls
C10_FullSecondTurn ==
    /\ turnNo = 2
    /\ turn.pc = "idle"
    /\ turn.nOllama = 2
    /\ turn.nTools = 1
    /\ turn.outcome = "returned"

\* the tool of the first direct-command rule the line matches, in the
\* order create-file, list-files, read-file; "none" when no rule matches
FirstRule(ws) ==
    LET lw == LowerWords(ws)
    IN  IF Len(lw) >= 8 /\ SubSeq(lw, 1, 3) = <<W_crea, W_el, W_archivo>>
           /\ \E k \in 5..(Len(lw) - 3) : SubSeq(lw, k, k + 2) = <<W_con, W_el, W_contenido>>
        THEN "write_file"
        ELSE IF lw = <<W_lista, W_los, W_archivos>> THEN "list_files"
        ELSE IF Len(lw) >= 2 /\ lw[1] \in {W_lee, W_leer} THEN "read_file"
        ELSE "none"

\* C11: in a turn whose line matches a direct-command rule exactly one
\* tool runs, the tool of the first rule that matches, and call_ollama is
\* not called; in a turn whose line matches no rule the router runs no
\* tool and the turn goes on to call_ollama.
C11_RouterBeforeInference ==
    (turn.user # <<>> /\ turn.pc # "exited")
    => /\ FirstRule(turn.user) # "none"
            => (/\ turn.direct
                /\ turn.pc = "idle"
                /\ turn.nTools = 1
                /\ turn.tool.ran
                /\ turn.tool.name = FirstRule(turn.user)
                /\ turn.nOllama = 0)
       /\ FirstRule(turn.user) = "none"
            => (/\ ~turn.direct
                /\ turn.pc = "infer1" => (turn.nTools = 0 /\ ~turn.tool.ran)
                /\ turn.pc # "infer1" => turn.nOllama >= 1)

\* a create-file line was served by write_file without the model
C11_DirectCreate ==
    /\ turn.user = U_crea
    /\ turn.direct
    /\ turn.tool.name = "write_file"
    /\ turn.tool.res.ok
    /\ turn.nOllama = 0

\* the first output is a JSON object whose action is "tool"
ToolAction(raw) ==
    LET a == parse_action(raw)
    IN  a.ok /\ a.isDict /\ IsStr(Get(a.value, "action"), "tool")

\* its tool_name is no key of TOOLS
NameNotInTools(raw) ==
    LET tn == Get(parse_action(raw).value, "tool_name")
    IN  tn.t # "str" \/ tn.v \notin TOOLS

\* its tool_name is a key of TOOLS and its args are no mapping, lack a
\* required parameter or hold a key that is no parameter
ArgsMismatch(raw) ==
    LET v == parse_action(raw).value
        tn == Get(v, "tool_name")
        given == Get(v, "args")
        ps == ToolParams(tn.v)
    IN  /\ IsStr(tn, tn.v) /\ tn.v \in TOOLS
        /\ IF PyFalsy(given) THEN ps.required # {}
           ELSE \/ given.t # "dict"
                \/ ~(ps.required \subseteq DOMAIN given.v)
                \/ ~(DOMAIN given.v \subseteq ps.required \cup ps.optional)

\* C14: a tool action whose tool_name is no key of TOOLS, or whose args do
\* not fit the tool's parameters, ends the turn with an error text handed
\* back to the user: no tool has run, call_ollama was called once, and
\* run_agent_turn returned instead of raising.
C14_BadToolActionReported ==
    (/\ FirstOutputHandled
     /\ ToolAction(turn.raw)
     /\ (NameNotInTools(turn.raw) \/ ArgsMismatch(turn.raw)))
    => (/\ turn.pc = "idle"
        /\ turn.outcome = "returned"
        /\ turn.reply.kind \in {"unknown_tool", "argument_error"}
        /\ turn.nTools = 0
        /\ ~turn.tool.ran
        /\ turn.nOllama = 1)

----------------------------------------------------------------------------
(* SpecOllama: call_ollama called again and again, one request per step    *)

\* response texts of the endpoint
OllamaTexts == {<<>>, <<"h", "i">>, <<"{", "}">>}

HttpOutcomes ==
    {NetError, HttpError(500), HttpError(404), HttpGarbage, HttpNoField}
        \cup {HttpOk(t) : t \in OllamaTexts}

InitOllama ==
    /\ PathIdle
    /\ approvalRequired = TRUE
    /\ fs = BaseFS
    /\ call = NoCall
    /\ prev = NoPrev
    /\ nCalls = 0
    /\ OllamaIdle
    /\ TurnIdle

\* call_ollama is entered
OllamaCall ==
    /\ oll.pc \in {"idle", "returned", "raised"}
    /\ oll' = OllamaEntered
    /\ UNCHANGED <<pathVars, toolVars, turnVars>>

\* one pass of the loop: a request is posted and answered or fails
OllamaRequest ==
    /\ oll.pc = "loop"
    /\ \E o \in HttpOutcomes : oll' = OllamaPass(oll, o)
    /\ UNCHANGED <<pathVars, toolVars, turnVars>>

NextOllama == OllamaCall \/ OllamaRequest

SpecOllama == InitOllama /\ [][NextOllama]_vars

\* the request failed in one of the two ways the claim names: a network
\* error or a status other than 200
NetworkOrStatusFailure(o) == o.exc \/ o.status # 200

\* C7 as stated: a call of call_ollama sends at most RETRIES+1 requests; it
\* returns the response text at the first request that succeeds, having
\* sent none after it; it raises only after exactly RETRIES+1 requests
\* that each failed with a network error or a status other than 200.
C7_FailuresAreNetworkOrStatus ==
    LET n == Len(oll.sent)
    IN  /\ n <= RETRIES + 1
        /\ oll.pc = "returned"
             => (/\ n >= 1
                 /\ ~NetworkOrStatusFailure(oll.sent[n])
                 /\ \A i \in 1..(n - 1) : NetworkOrStatusFailure(oll.sent[i])
                 /\ oll.out = ResponseText(oll.sent[n]))
        /\ oll.pc = "raised"
             => (n = RETRIES + 1 /\ \A i \in 1..n : NetworkOrStatusFailure(oll.sent[i]))

\* C7 amended: a call of call_ollama sends at most RETRIES+1 requests; it
\* returns the response text at the first request that succeeds, having
\* sent none after it; it raises only after exactly RETRIES+1 requests
\* that all failed, where a request fails by a network error, by a status
\* other than 200, or by a status 200 with a body that is not a JSON object.
C7_RetriesPlusOne ==
    LET n == Len(oll.sent)
    IN  /\ n <= RETRIES + 1
        /\ oll.pc = "returned"
             => (/\ n >= 1
                 /\ AttemptReturns(oll.sent[n])
                 /\ \A i \in 1..(n - 1) : ~AttemptReturns(oll.sent[i])
                 /\ oll.out = ResponseText(oll.sent[n]))
        /\ oll.pc = "raised"
             => (n = RETRIES + 1 /\ \A i \in 1..n : ~AttemptReturns(oll.sent[i]))
        /\ oll.pc = "loop" => \A i \in 1..n : ~AttemptReturns(oll.sent[i])

\* the call has raised after RETRIES+1 requests, one answered HTTP 500 and
\* one answered 200 with a body that is not a JSON object
C7_AllAttemptsFailed ==
    /\ oll.pc = "raised"
    /\ Len(oll.sent) = RETRIES + 1
    /\ \E i \in 1..Len(oll.sent) : oll.sent[i] = HttpError(500)
    /\ \E i \in 1..Len(oll.sent) : oll.sent[i] = HttpGarbage

====
